---- MODULE Spec2Model ----
(***************************************************************************)
(* IframeMessenger: request/response and event messaging between two       *)
(* windows (a host page and an embedded iframe) on top of                   *)
(* Window.postMessage().  Each window owns one IframeMessenger whose        *)
(* `source` is the other window.                                            *)
(***************************************************************************)
EXTENDS Integers, Sequences, FiniteSets

\* ------------------------------------------------------------------ bounds
MaxOps == 3     \* calls the applications make to the messengers in a behaviour

\* ------------------------------------------------------------ JS values
\* A JavaScript value is a record tagged with its kind.
Undefined == [kind |-> "undefined"]
Null == [kind |-> "null"]
Str(s) == [kind |-> "string", s |-> s]
Bool(b) == [kind |-> "boolean", b |-> b]
Obj(props) == [kind |-> "object", props |-> props]
NativeError(message) == [kind |-> "Error", message |-> Str(message)]
\* a function value, which the structured clone of postMessage refuses
Function == [kind |-> "function"]

\* typeof v
TypeOf(v) ==
    IF v.kind \in {"object", "null", "Error", "RequestError"} THEN "object"
    ELSE v.kind

\* v instanceof Error (RequestError extends Error)
InstanceOfError(v) == v.kind \in {"Error", "RequestError"}

\* if (v) ...
Truthy(v) ==
    CASE v.kind = "undefined" -> FALSE
      [] v.kind = "null" -> FALSE
      [] v.kind = "boolean" -> v.b
      [] v.kind = "string" -> v.s # ""
      [] OTHER -> TRUE

\* k in v, for a non-null object v
In(k, v) == v.kind = "object" /\ k \in DOMAIN v.props

\* v.k (undefined when the property is absent)
Get(v, k) == IF In(k, v) THEN v.props[k] ELSE Undefined

\* String(v), as the Error constructor applies it to its message
StringOf(v) ==
    CASE v.kind = "string" -> v
      [] v.kind = "undefined" -> Str("")
      [] OTHER -> Str(v.kind)

\* new RequestError(message, type, data)
RequestError(message, type, data) ==
    [kind |-> "RequestError", message |-> StringOf(message),
     type |-> type, data |-> data]

\* ------------------------------------------------------------ Error codec
UnknownError == NativeError("Ocorreu um erro desconhecido. Veja o console")

\* parseErrorPayload: the error it returns, or the error it throws
parseErrorPayload(payload) ==
    IF InstanceOfError(payload)
    THEN [threw |-> FALSE, value |-> payload]
    ELSE IF /\ payload # Null
            /\ TypeOf(payload) = "object"
            /\ In("message", payload)
            /\ TypeOf(payload.props.message) = "string"
            /\ In("type", payload)
            /\ TypeOf(payload.props.type) = "string"
            /\ In("data", payload)
    THEN [threw |-> FALSE,
          value |-> RequestError(payload.props.message, payload.props.type,
                                 payload.props.data)]
    ELSE [threw |-> TRUE, value |-> UnknownError]

\* toErrorPayload without the RequestError branch: the error is handed to
\* postMessage as it is
toErrorPayload_PassThrough(error) == error

toErrorPayload(error) ==
    IF error.kind = "RequestError"
    THEN Obj([message |-> error.message, type |-> error.type, data |-> error.data])
    ELSE error

\* ------------------------------------------------------------ Protocol
messageTypeRequest == "IFRAME-MESSAGE-REQUEST"
messageTypeResponse == "IFRAME-MESSAGE-RESPONSE"
messageTypeEvent == "IFRAME-MESSAGE-EVENT"

isRequest(data) ==
    /\ TypeOf(data) = "object"
    /\ data # Null
    /\ In("id", data)
    /\ In("action", data)
    /\ In("type", data)
    /\ data.props.type = messageTypeRequest

\* an isResponse that also requires the payload and error fields
isResponse_RequiresAllFields(data) ==
    /\ TypeOf(data) = "object"
    /\ data # Null
    /\ In("id", data)
    /\ In("type", data)
    /\ In("payload", data)
    /\ In("error", data)
    /\ data.props.type = messageTypeResponse

isResponse(data) ==
    /\ TypeOf(data) = "object"
    /\ data # Null
    /\ In("id", data)
    /\ In("type", data)
    /\ data.props.type = messageTypeResponse

isEvent(data) ==
    /\ TypeOf(data) = "object"
    /\ data # Null
    /\ In("action", data)
    /\ In("type", data)
    /\ data.props.type = messageTypeEvent

\* ------------------------------------------------------------ Environment
Windows == {"host", "iframe"}
\* the applications, as DashboardsService wires them: the host requests and the
\* iframe serves; events flow both ways
Requesters == {"host"}
Responders == {"iframe"}
Stranger == "stranger"          \* a window that is no messenger's `source`
Actions == {"a", "b"}
RequestHandlerNames == {"h1", "h2"}
EventHandlerNames == {"g1", "g2"}
NoHandler == "undefined"        \* Map.get() of a key that was never set

RequestPayloads == {Str("p")}
EventPayloads == {Str("e")}
ReturnValues == {Str("r1"), Str("r2")}

\* what a request handler may throw or reject with
ThrowValues ==
    { RequestError(Str("m"), Str("t"), Str("d")),
      RequestError(Str("m"), Undefined, Undefined),
      NativeError("boom"),
      Str("oops"),
      Obj([message |-> Str("m"), type |-> Str("t"), data |-> Undefined]),
      Obj([message |-> Str("m")]) }


\* ------------------------------------------------------------ State
VARIABLES
    requestHandlers,  \* [w -> Map action -> handler]     (#requestHandlers)
    eventHandlers,    \* [w -> Map action -> handler]     (#eventHandlers)
    calls,            \* sendRequest calls, indexed by id: the promise and
                      \* the listener of #receiveRequestResponse
    inbox,            \* [w -> queue of MessageEvents posted to window w]
    running,          \* request handlers whose awaitable has not settled
    served,           \* history: per request id, what #handleRequest did
    replied,          \* history: Response messages posted, in order
    evLog,            \* history: event handler invocations, in order
    uncaught,         \* history: exceptions that escaped a "message" listener
    settleOrder,      \* history: ids of calls in the order they settled
    failure,          \* the value the request handlers of this behaviour
                      \* throw or reject with, when they fail
    count,            \* history: calls made to the messengers so far, by kind
    hist              \* history: the handlers registered per action, in order,
                      \* the Events dispatched while their action had no
                      \* handler, and the ids of the Requests whose handler
                      \* has settled, in order

vars == <<requestHandlers, eventHandlers, calls, inbox, running, served,
          replied, evLog, uncaught, settleOrder, failure, count, hist>>

\* this.source of the messenger that lives in window w
SourceOf(w) == IF w = "host" THEN "iframe" ELSE "host"

\* Map.get(key)
MapGet(map, key) == IF key \in DOMAIN map THEN map[key] ELSE NoHandler

\* a Map.set that keeps the value a key already has
MapSet_KeepsFirst(map, key, value) ==
    [k \in DOMAIN map \cup {key} |-> IF k \in DOMAIN map THEN map[k] ELSE value]

\* Map.set(key, value)
MapSet(map, key, value) ==
    [k \in DOMAIN map \cup {key} |-> IF k = key THEN value ELSE map[k]]

EmptyMap == [k \in {} |-> NoHandler]

\* structured clone of a value crossing postMessage: an instance of a
\* user-defined Error subclass arrives as a plain Error
Clone(v) ==
    IF v.kind = "RequestError" THEN [kind |-> "Error", message |-> v.message]
    ELSE v

\* the MessageEvent that window w's postMessage of `data` queues at its peer
Envelope(w, data) ==
    [source |-> w,
     data |-> IF In("payload", data)
              THEN Obj([data.props EXCEPT !.payload = Clone(data.props.payload)])
              ELSE data]

\* this.source.postMessage(m) for each m of `posts`, called in window w
PostAll(w, posts) ==
    [x \in Windows |->
        IF x = SourceOf(w)
        THEN inbox[x] \o [i \in 1..Len(posts) |-> Envelope(w, posts[i])]
        ELSE inbox[x]]

\* the ways one invocation of a request handler can go
HandlerOutcomes ==
    {[ok |-> TRUE, value |-> v] : v \in ReturnValues} \cup
    {[ok |-> FALSE, value |-> failure]}

\* calls made to the messengers so far
Ops ==
    count.requests + count.events + count.registrations + count.foreign + count.raw

Init ==
    /\ requestHandlers = [w \in Windows |-> EmptyMap]
    /\ eventHandlers = [w \in Windows |-> EmptyMap]
    /\ calls = <<>>
    /\ inbox = [w \in Windows |-> <<>>]
    /\ running = {}
    /\ served = EmptyMap
    /\ replied = <<>>
    /\ evLog = <<>>
    /\ uncaught = {}
    /\ settleOrder = <<>>
    /\ failure \in ThrowValues
    /\ count = [requests |-> 0, events |-> 0, registrations |-> 0, foreign |-> 0,
                raw |-> 0]
    /\ hist = [requestHandlers |-> [w \in Windows |-> [a \in Actions |-> <<>>]],
               eventHandlers |-> [w \in Windows |-> [a \in Actions |-> <<>>]],
               dropped |-> <<>>,
               completed |-> <<>>]

\* ------------------------------------------------------------ Registration
registerRequestHandler(w, action, handler) ==
    /\ Ops < MaxOps
    /\ requestHandlers' = [requestHandlers EXCEPT ![w] = MapSet(@, action, handler)]
    /\ count' = [count EXCEPT !.registrations = @ + 1]
    /\ hist' = [hist EXCEPT !.requestHandlers[w][action] = Append(@, handler)]
    /\ UNCHANGED <<eventHandlers, calls, inbox, running, served, replied,
                   evLog, uncaught, settleOrder, failure>>

\* an invocation of an event handler, as evLog records it
Invocation(w, handler, action, payload) ==
    [w |-> w, handler |-> handler, action |-> action, payload |-> payload]

\* registerEventsHandler as it would be if the messenger kept the Events that
\* found no handler and replayed them to the handler registered later
registerEventsHandler_Replays(w, action, handler) ==
    /\ Ops < MaxOps
    /\ eventHandlers' = [eventHandlers EXCEPT ![w] = MapSet(@, action, handler)]
    /\ count' = [count EXCEPT !.registrations = @ + 1]
    /\ hist' = [hist EXCEPT !.eventHandlers[w][action] = Append(@, handler)]
    /\ LET kept == SelectSeq(hist.dropped,
                             LAMBDA e : e.w = w /\ e.action = action)
       IN  evLog' = evLog \o [i \in 1..Len(kept) |->
                                 Invocation(w, handler, action, kept[i].payload)]
    /\ UNCHANGED <<requestHandlers, calls, inbox, running, served, replied,
                   uncaught, settleOrder, failure>>

registerEventsHandler(w, action, handler) ==
    /\ Ops < MaxOps
    /\ eventHandlers' = [eventHandlers EXCEPT ![w] = MapSet(@, action, handler)]
    /\ count' = [count EXCEPT !.registrations = @ + 1]
    /\ hist' = [hist EXCEPT !.eventHandlers[w][action] = Append(@, handler)]
    /\ UNCHANGED <<requestHandlers, calls, inbox, running, served, replied,
                   evLog, uncaught, settleOrder, failure>>

\* ------------------------------------------------------------ Sending
RequestMessage(id, action, payload) ==
    Obj([id |-> id, type |-> messageTypeRequest, action |-> action,
         payload |-> payload])

EventMessage(action, payload) ==
    Obj([type |-> messageTypeEvent, action |-> action, payload |-> payload])

\* a call whose Request is posted while no listener is registered for its id
PendingCall_NotArmed(w, action, payload) ==
    [owner |-> w, action |-> action, payload |-> payload,
     status |-> "pending", value |-> Undefined, armed |-> FALSE, seen |-> <<>>,
     sent |-> payload.kind # "function"]

\* whether postMessage can clone `payload`; it throws a DataCloneError and
\* posts nothing when it cannot
Cloneable(payload) == payload.kind # "function"

\* the promise of #receiveRequestResponse and its "message" listener; `sent`
\* tells whether the postMessage of sendRequest returned
PendingCall(w, action, payload) ==
    [owner |-> w, action |-> action, payload |-> payload,
     status |-> "pending", value |-> Undefined, armed |-> TRUE, seen |-> <<>>,
     sent |-> Cloneable(payload)]

\* the state of the promise sendRequest returns: the exception of postMessage
\* rejects it; otherwise it follows the promise of #receiveRequestResponse
Awaitable(call) == IF call.sent THEN call.status ELSE "rejected"

\* sendRequest up to its await: a fresh id, the listener armed, the Request
\* posted
sendRequest(w, action, payload) ==
    /\ Ops < MaxOps
    /\ LET id == Len(calls) + 1 IN
        /\ calls' = Append(calls, PendingCall(w, action, payload))
        /\ inbox' = IF Cloneable(payload)
                    THEN PostAll(w, <<RequestMessage(id, action, payload)>>)
                    ELSE inbox
    /\ count' = [count EXCEPT !.requests = @ + 1]
    /\ UNCHANGED <<requestHandlers, eventHandlers, running, served, replied,
                   evLog, uncaught, settleOrder, failure, hist>>

sendEvent(w, action, payload) ==
    /\ Ops < MaxOps
    /\ inbox' = PostAll(w, <<EventMessage(action, payload)>>)
    /\ count' = [count EXCEPT !.events = @ + 1]
    /\ UNCHANGED <<requestHandlers, eventHandlers, calls, running, served,
                   replied, evLog, uncaught, settleOrder, failure, hist>>

\* ------------------------------------------------------------ Request side
\* reply(payload, error) of #handleRequest: the Response it posts
reply(request, payload, error) ==
    Obj([id |-> request.props.id, type |-> messageTypeResponse,
         payload |-> payload, error |-> error])

\* the catch of the promise chain replying without the error flag
replyOutcome_FailureUnflagged(request, outcome) ==
    IF outcome.ok
    THEN reply(request, outcome.value, Undefined)
    ELSE reply(request, toErrorPayload(outcome.value), Undefined)

\* the Response posted once the handler's promise chain has settled:
\* .then(response => reply(response)) or .catch(err => reply(toErrorPayload(err), true))
replyOutcome(request, outcome) ==
    IF outcome.ok
    THEN reply(request, outcome.value, Undefined)
    ELSE reply(request, toErrorPayload(outcome.value), Bool(TRUE))

\* the unknown-action branch without its `return`: the promise chain runs too,
\* calls the missing handler, and its catch posts a second Response
replyUnknownAction_FallsThrough(request) ==
    <<reply(request, NativeError("Acao desconhecida"), Bool(TRUE)),
      reply(request, NativeError("handler is not a function"), Bool(TRUE))>>

\* the unknown-action branch replying without the error flag
replyUnknownAction_NoErrorFlag(request) ==
    <<reply(request, NativeError("Acao desconhecida"), Undefined)>>

\* reply for a Request whose action has no handler
replyUnknownAction(request) ==
    <<reply(request, NativeError("Acao desconhecida"), Bool(TRUE))>>

\* a handler invocation that has not settled within the dispatching task
Suspended == [ok |-> FALSE, value |-> Undefined, suspended |-> TRUE]
Settled(outcome) == "suspended" \notin DOMAIN outcome

ServedRecord(w, handler, request, invoked, outcomes) ==
    [w |-> w, handler |-> handler, arg |-> Get(request, "payload"),
     invoked |-> invoked, outcomes |-> outcomes]

Invoked(id) == IF id \in DOMAIN served THEN served[id].invoked ELSE 0
Outcomes(id) == IF id \in DOMAIN served THEN served[id].outcomes ELSE <<>>

\* #handleRequest(request): what it posts and what it leaves running, when the
\* handler (if any) goes the way `behaviour` says
handleRequest(w, request, behaviour) ==
    LET id == request.props.id
        handler == MapGet(requestHandlers[w], request.props.action)
    IN  IF handler = NoHandler
        THEN [posts |-> replyUnknownAction(request),
              running |-> running,
              served |-> MapSet(served, id,
                            ServedRecord(w, NoHandler, request, Invoked(id), Outcomes(id)))]
        ELSE IF ~Settled(behaviour)
        THEN [posts |-> <<>>,
              running |-> running \cup {[w |-> w, request |-> request]},
              served |-> MapSet(served, id,
                            ServedRecord(w, handler, request, Invoked(id) + 1, Outcomes(id)))]
        ELSE [posts |-> <<replyOutcome(request, behaviour)>>,
              running |-> running,
              served |-> MapSet(served, id,
                            ServedRecord(w, handler, request, Invoked(id) + 1,
                                         Append(Outcomes(id), behaviour)))]

\* #handleEvent without the `if (!handler)` guard: calling the missing handler
\* throws
handleEvent_NoGuard(w, data, throws) ==
    LET handler == MapGet(eventHandlers[w], data.props.action)
    IN  IF handler = NoHandler
        THEN [evLog |-> evLog, threw |-> TRUE]
        ELSE [evLog |-> Append(evLog, [w |-> w, handler |-> handler,
                                       action |-> data.props.action,
                                       payload |-> Get(data, "payload")]),
              threw |-> throws]

\* #handleEvent calling the handler a second time
handleEvent_Twice(w, data, throws) ==
    LET handler == MapGet(eventHandlers[w], data.props.action)
        call == [w |-> w, handler |-> handler, action |-> data.props.action,
                 payload |-> Get(data, "payload")]
    IN  IF handler = NoHandler
        THEN [evLog |-> evLog, threw |-> FALSE]
        ELSE [evLog |-> evLog \o <<call, call>>, threw |-> throws]

\* #handleEvent(data): the handler invocation, and whether it threw
handleEvent(w, data, throws) ==
    LET handler == MapGet(eventHandlers[w], data.props.action)
    IN  IF handler = NoHandler
        THEN [evLog |-> evLog, threw |-> FALSE]
        ELSE [evLog |-> Append(evLog, [w |-> w, handler |-> handler,
                                       action |-> data.props.action,
                                       payload |-> Get(data, "payload")]),
              threw |-> throws]

\* whether #messageHandler lets the MessageEvent through
fromSource(w, message) ==
    ~(message.source = "null" \/ message.source # SourceOf(w))

\* #messageHandler(message): the effect of the listener bound at construction
messageHandler(w, message, behaviour, throws) ==
    LET data == message.data
        idle == [posts |-> <<>>, running |-> running, served |-> served,
                 evLog |-> evLog, threw |-> FALSE]
    IN  IF ~fromSource(w, message) THEN idle
        ELSE IF isEvent(data)
        THEN LET e == handleEvent(w, data, throws)
             IN  [idle EXCEPT !.evLog = e.evLog, !.threw = e.threw]
        ELSE IF isRequest(data)
        THEN LET r == handleRequest(w, data, behaviour)
             IN  [idle EXCEPT !.posts = r.posts, !.running = r.running,
                              !.served = r.served]
        ELSE idle

\* ------------------------------------------------------------ Response side
\* the callback without its `event.data.id === id` test
matches_AnyResponse(id, data) == isResponse(data)

\* whether the callback of #receiveRequestResponse for call `id` takes `data`
matches(id, data) == isResponse(data) /\ data.props.id = id

\* resolve / reject of a promise: a settled promise stays as it is
settle(call, status, value) ==
    IF call.status = "pending"
    THEN [call EXCEPT !.status = status, !.value = value]
    ELSE call

\* the listener removed where the promise resolves only, not in a finally
finally_OnlyOnResolve(call) ==
    IF call.status = "resolved" THEN [call EXCEPT !.armed = FALSE] ELSE call

\* the promise without its finally: the listener is never removed
finally_NeverDetaches(call) == call

\* .finally(() => removeEventListener("message", callback))
finally(call) ==
    IF call.status # "pending" THEN [call EXCEPT !.armed = FALSE] ELSE call

\* the callback resolving with event.data instead of event.data.payload
callback_ResolvesWithMessage(id, data) ==
    LET call == calls[id]
        noted == [call EXCEPT !.seen = Append(@, data)]
    IN  IF isResponse(data) /\ data.props.id = id
        THEN IF Truthy(Get(data, "error"))
             THEN LET e == parseErrorPayload(Get(data, "payload"))
                  IN  IF e.threw THEN noted
                      ELSE finally(settle(noted, "rejected", e.value))
             ELSE finally(settle(noted, "resolved", data))
        ELSE call

\* the callback of #receiveRequestResponse for call `id`, run on `data`
callback(id, data) ==
    LET call == calls[id]
        noted == [call EXCEPT !.seen = Append(@, data)]
    IN  IF matches(id, data)
        THEN IF Truthy(Get(data, "error"))
             THEN LET e == parseErrorPayload(Get(data, "payload"))
                  IN  IF e.threw THEN noted
                      ELSE finally(settle(noted, "rejected", e.value))
             ELSE finally(settle(noted, "resolved", Get(data, "payload")))
        ELSE call

\* whether that callback throws on `data`
callbackThrows(id, data) ==
    /\ matches(id, data)
    /\ Truthy(Get(data, "error"))
    /\ parseErrorPayload(Get(data, "payload")).threw

\* the callbacks that window w has registered for "message" and not removed
Armed(w) == {id \in 1..Len(calls) : calls[id].owner = w /\ calls[id].armed}

\* every armed callback of window w run on `data`
responseListeners(w, data) ==
    [calls |-> [id \in 1..Len(calls) |->
                    IF id \in Armed(w) THEN callback(id, data) ELSE calls[id]],
     threw |-> \E id \in Armed(w) : callbackThrows(id, data)]

\* ids of the calls that go from pending to settled between cs and ds
NewlySettled(cs, ds) ==
    {id \in 1..Len(cs) : cs[id].status = "pending" /\ ds[id].status # "pending"}

RECURSIVE SeqOfSet(_)
SeqOfSet(S) ==
    IF S = {} THEN <<>>
    ELSE LET x == CHOOSE y \in S : \A z \in S : y <= z
         IN  <<x>> \o SeqOfSet(S \ {x})

\* ------------------------------------------------------------ Delivery
\* the ways the handler that `message` reaches (if any) can go
BehavioursFor(w, message) ==
    IF /\ fromSource(w, message)
       /\ isRequest(message.data)
       /\ MapGet(requestHandlers[w], message.data.props.action) # NoHandler
    THEN HandlerOutcomes \cup {Suspended}
    ELSE {Suspended}

ThrowsFor(w, message) ==
    IF /\ fromSource(w, message)
       /\ isEvent(message.data)
       /\ MapGet(eventHandlers[w], message.data.props.action) # NoHandler
    THEN BOOLEAN
    ELSE {FALSE}

\* the listeners that let an exception escape while handling `data`
Escaped(m, c, data) ==
    (IF m.threw THEN {[listener |-> "messageHandler", data |-> data]} ELSE {}) \cup
    (IF c.threw THEN {[listener |-> "responseListener", data |-> data]} ELSE {})

\* the Event of `message`, when #handleEvent finds no handler for its action
Dropped(w, message) ==
    IF /\ fromSource(w, message)
       /\ isEvent(message.data)
       /\ MapGet(eventHandlers[w], message.data.props.action) = NoHandler
    THEN <<[w |-> w, action |-> message.data.props.action,
            payload |-> Get(message.data, "payload")]>>
    ELSE <<>>

\* the id of the Request of `message`, when its handler settles within the task
Completed(w, message, behaviour) ==
    IF /\ fromSource(w, message)
       /\ ~isEvent(message.data)
       /\ isRequest(message.data)
       /\ MapGet(requestHandlers[w], message.data.props.action) # NoHandler
       /\ Settled(behaviour)
    THEN <<message.data.props.id>>
    ELSE <<>>

\* one "message" task of window w: the MessageEvent at the head of its queue is
\* dispatched to #messageHandler and to every armed per-call callback, and the
\* microtasks they queue run
DeliverMessage(w) ==
    /\ inbox[w] # <<>>
    /\ LET message == Head(inbox[w]) IN
       \E behaviour \in BehavioursFor(w, message), throws \in ThrowsFor(w, message) :
          LET m == messageHandler(w, message, behaviour, throws)
              c == responseListeners(w, message.data)
          IN  /\ inbox' = [PostAll(w, m.posts) EXCEPT ![w] = Tail(inbox[w])]
              /\ running' = m.running
              /\ served' = m.served
              /\ replied' = replied \o m.posts
              /\ evLog' = m.evLog
              /\ calls' = c.calls
              /\ settleOrder' = settleOrder \o SeqOfSet(NewlySettled(calls, c.calls))
              /\ uncaught' = uncaught \cup Escaped(m, c, message.data)
              /\ hist' = [hist EXCEPT
                            !.dropped = @ \o Dropped(w, message),
                            !.completed = @ \o Completed(w, message, behaviour)]
    /\ UNCHANGED <<requestHandlers, eventHandlers, failure, count>>

\* a messenger that serves one Request at a time: of the handlers suspended
\* in window w only the one of the oldest Request may post its Response
CompleteHandler_Serial(w) ==
    \E r \in running, outcome \in HandlerOutcomes :
        /\ r.w = w
        /\ \A q \in running : q.w = w => r.request.props.id <= q.request.props.id
        /\ LET id == r.request.props.id
               post == replyOutcome(r.request, outcome)
           IN  /\ inbox' = PostAll(w, <<post>>)
               /\ replied' = Append(replied, post)
               /\ served' = [served EXCEPT ![id].outcomes = Append(@, outcome)]
               /\ hist' = [hist EXCEPT !.completed = Append(@, id)]
        /\ running' = running \ {r}
        /\ UNCHANGED <<requestHandlers, eventHandlers, calls, evLog, uncaught,
                       settleOrder, failure, count>>

\* the awaitable of a suspended request handler settles: the rest of the
\* promise chain of #handleRequest runs and posts the Response
CompleteHandler(w) ==
    \E r \in running, outcome \in HandlerOutcomes :
        /\ r.w = w
        /\ LET id == r.request.props.id
               post == replyOutcome(r.request, outcome)
           IN  /\ inbox' = PostAll(w, <<post>>)
               /\ replied' = Append(replied, post)
               /\ served' = [served EXCEPT ![id].outcomes = Append(@, outcome)]
               /\ hist' = [hist EXCEPT !.completed = Append(@, id)]
        /\ running' = running \ {r}
        /\ UNCHANGED <<requestHandlers, eventHandlers, calls, evLog, uncaught,
                       settleOrder, failure, count>>

\* ------------------------------------------------------------ Other windows
\* what a window that is not the messenger's `source` may post: messages of
\* every shape, a Response for every id in use, and data of no shape
ForeignMessages ==
    {RequestMessage(0, "a", Str("p")), EventMessage("a", Str("e"))} \cup
    {Obj([id |-> id, type |-> messageTypeResponse, payload |-> Str("forged"),
          error |-> Undefined]) : id \in 1..Len(calls)} \cup
    {Obj([id |-> id, type |-> messageTypeResponse, payload |-> NativeError("forged"),
          error |-> Bool(TRUE)]) : id \in 1..Len(calls)} \cup
    {Str("junk")}

\* a window other than the peer posts `data` to window w
ForeignPost(w, source, data) ==
    /\ Ops < MaxOps
    /\ inbox' = [inbox EXCEPT ![w] = Append(@, [source |-> source, data |-> data])]
    /\ count' = [count EXCEPT !.foreign = @ + 1]
    /\ UNCHANGED <<requestHandlers, eventHandlers, calls, running, served,
                   replied, evLog, uncaught, settleOrder, failure, hist>>

\* ------------------------------------------------------------ Specification
Next ==
    \/ \E w \in Responders, a \in Actions, h \in RequestHandlerNames :
          registerRequestHandler(w, a, h)
    \/ \E w \in Windows, a \in Actions, h \in EventHandlerNames :
          registerEventsHandler(w, a, h)
    \/ \E w \in Requesters, a \in Actions, p \in RequestPayloads : sendRequest(w, a, p)
    \/ \E w \in Windows, a \in Actions, p \in EventPayloads : sendEvent(w, a, p)
    \/ \E w \in Windows : DeliverMessage(w)
    \/ \E w \in Windows : CompleteHandler(w)

Spec == Init /\ [][Next]_vars

\* the two windows, and a third one posting to them
NextForeign ==
    \/ Next
    \/ \E w \in Windows, source \in {Stranger, "null"}, data \in ForeignMessages :
          ForeignPost(w, source, data)

SpecForeign == Init /\ [][NextForeign]_vars

\* what the application in the peer of window w may post with postMessage
\* itself, beside what its messenger posts. To a requester: Responses for the
\* ids in use (without payload and error, a complete one, one flagged as an
\* error with a payload that is no structured error) and data that is no
\* object. To a responder: a Request and an Event without payload, and null.
RawMessages(w) ==
    IF w \in Requesters
    THEN {Obj([id |-> id, type |-> messageTypeResponse]) : id \in 1..Len(calls)} \cup
         {Obj([id |-> id, type |-> messageTypeResponse, payload |-> Str("again"),
               error |-> Undefined]) : id \in 1..Len(calls)} \cup
         {Obj([id |-> id, type |-> messageTypeResponse, payload |-> Str("oops"),
               error |-> Bool(TRUE)]) : id \in 1..Len(calls)} \cup
         {Str("junk")}
    ELSE {Obj([id |-> 0, type |-> messageTypeRequest, action |-> "a"]),
          Obj([type |-> messageTypeEvent, action |-> "a"]),
          Null}

\* the peer of window w posts `data` to it
RawPost(w, data) ==
    /\ Ops < MaxOps
    /\ inbox' = [inbox EXCEPT ![w] = Append(@, [source |-> SourceOf(w), data |-> data])]
    /\ count' = [count EXCEPT !.raw = @ + 1]
    /\ UNCHANGED <<requestHandlers, eventHandlers, calls, running, served,
                   replied, evLog, uncaught, settleOrder, failure, hist>>

\* the request side of the two messengers, with peers that also post messages
\* of their own; the request handlers that fail throw a string
NextRaw ==
    \/ \E w \in Responders, a \in Actions, h \in RequestHandlerNames :
          registerRequestHandler(w, a, h)
    \/ \E w \in Requesters, a \in Actions, p \in RequestPayloads : sendRequest(w, a, p)
    \/ \E w \in Windows : DeliverMessage(w)
    \/ \E w \in Windows : CompleteHandler(w)
    \/ \E w \in Windows : \E data \in RawMessages(w) : RawPost(w, data)

InitRaw == Init /\ failure = Str("oops")

SpecRaw == InitRaw /\ [][NextRaw]_vars

\* the request side of the two messengers, with callers that also pass a
\* payload postMessage cannot clone
NextTransport ==
    \/ \E w \in Responders, a \in Actions, h \in RequestHandlerNames :
          registerRequestHandler(w, a, h)
    \/ \E w \in Requesters, a \in Actions, p \in RequestPayloads \cup {Function} :
          sendRequest(w, a, p)
    \/ \E w \in Windows : DeliverMessage(w)
    \/ \E w \in Windows : CompleteHandler(w)

SpecTransport == Init /\ [][NextTransport]_vars

\* the event side of the two messengers, with two payloads to tell the Events
\* apart
NextEvents ==
    \/ \E w \in Windows, a \in Actions, h \in EventHandlerNames :
          registerEventsHandler(w, a, h)
    \/ \E w \in Windows, a \in Actions, p \in EventPayloads \cup {Str("e2")} :
          sendEvent(w, a, p)
    \/ \E w \in Windows : DeliverMessage(w)

SpecEvents == Init /\ [][NextEvents]_vars

\* the awaitable a suspended request handler returned eventually settles
FairSpec == Spec /\ WF_vars(\E w \in Windows : CompleteHandler(w))

\* ------------------------------------------------------------ Properties
Ids == 1..Len(calls)

\* the Responses posted so far that carry `id`
ResponsesFor(id) == SelectSeq(replied, LAMBDA r : r.props.id = id)

\* the Request of call `id` has been dispatched to a registered handler /
\* has been dispatched and found no handler
Handled(id) == id \in DOMAIN served /\ served[id].handler # NoHandler
Unhandled(id) == id \in DOMAIN served /\ served[id].handler = NoHandler

\* the handler serving call `id` has returned / has failed
Returned(id) == Handled(id) /\ served[id].outcomes # <<>> /\ served[id].outcomes[1].ok
Failed(id) == Handled(id) /\ served[id].outcomes # <<>> /\ ~served[id].outcomes[1].ok
Result(id) == served[id].outcomes[1].value

\* the listener of call `id` has been handed a Response carrying its id
Answered(id) == calls[id].seen # <<>>

\* C1: a Request for an action with a registered handler invokes that handler,
\* at the peer, with the payload sent; the Response posted back carries the
\* Request's id and the handler's return value; and the caller's promise is
\* resolved with exactly that value: it is never rejected, never resolved with
\* anything else, and is resolved as soon as the Response has been delivered.
C1_ResolvesToHandlerResult ==
    \A id \in Ids :
        /\ Handled(id) =>
              /\ served[id].w = SourceOf(calls[id].owner)
              /\ served[id].arg = calls[id].payload
              /\ served[id].invoked = 1
        /\ Returned(id) =>
              /\ Len(ResponsesFor(id)) = 1
              /\ ResponsesFor(id)[1].props.payload = Result(id)
              /\ calls[id].status # "rejected"
              /\ Answered(id) => calls[id].status = "resolved"
        /\ calls[id].status = "resolved" =>
              Returned(id) /\ calls[id].value = Result(id)

C1_Witness ==
    \E id \in Ids :
        /\ Returned(id)
        /\ calls[id].status = "resolved"
        /\ calls[id].value = Result(id)

\* C2: whatever the order in which Responses are delivered, the record of a
\* call (its outcome, its value, its listener) changes only in the task that
\* delivers, to the window that made the call, a Response carrying the call's
\* own id, and a call that settles in that task takes that Response's payload.
C2_SettledOnlyByOwnId ==
    [][\A id \in Ids :
          calls'[id] # calls[id] =>
             LET w == calls[id].owner IN
             /\ inbox[w] # <<>>
             /\ inbox'[w] = Tail(inbox[w])
             /\ isResponse(Head(inbox[w]).data)
             /\ Head(inbox[w]).data.props.id = id
             /\ calls'[id].status = "resolved" =>
                    calls'[id].value = Head(inbox[w]).data.props.payload
             /\ calls'[id].status = "rejected" =>
                    calls'[id].value =
                        parseErrorPayload(Head(inbox[w]).data.props.payload).value]_vars

\* two calls in flight together, answered in the reverse order, each with the
\* result of its own handler invocation
C2_Witness ==
    /\ Len(calls) = 2
    /\ calls[1].owner = calls[2].owner
    /\ settleOrder = <<2, 1>>
    /\ calls[1].status = "resolved" /\ calls[2].status = "resolved"
    /\ calls[1].value # calls[2].value
    /\ calls[1].value = Result(1) /\ calls[2].value = Result(2)

\* the payload of an error Response that parseErrorPayload does not recognise
Undecodable(payload) == parseErrorPayload(payload).threw

\* C3: once the listener of a call has been handed a Response with its id,
\* error = true and a payload that is neither a native error nor an object with
\* string message, string type and a data key, the call is rejected with the
\* generic unknown error, and no exception has escaped that listener.
C3_UndecodableErrorRejects ==
    \A id \in Ids :
        (\E i \in 1..Len(calls[id].seen) :
            LET r == calls[id].seen[i] IN
            Truthy(Get(r, "error")) /\ Undecodable(Get(r, "payload")))
        => /\ calls[id].status = "rejected"
           /\ calls[id].value = UnknownError
           /\ \A u \in uncaught : u.listener # "responseListener"

\* the task that delivers the head of window w's queue takes this step
Delivers(w) == inbox[w] # <<>> /\ inbox'[w] = Tail(inbox[w])

\* what the messengers and their callers hold, apart from the queue a task
\* consumes its MessageEvent from
MessengerState ==
    <<requestHandlers, eventHandlers, calls, running, served, replied, evLog,
      uncaught, settleOrder>>

\* C4: the task that delivers a message whose source is not the messenger's
\* peer, whatever the message's shape, invokes no handler, posts nothing and
\* changes no state of the messenger or of its pending calls.
C4_UnboundSourceIgnored ==
    [][\A w \in Windows :
          (Delivers(w) /\ ~fromSource(w, Head(inbox[w])))
          => /\ UNCHANGED MessengerState
             /\ inbox'[SourceOf(w)] = inbox[SourceOf(w)]]_vars

\* C5: a Request dispatched by a messenger invokes the request handler at most
\* once and is answered by exactly one Response carrying its id: never more
\* than one, and eventually one, whether the handler is absent, returns,
\* throws, or returns an awaitable that resolves or rejects.
C5_ExactlyOneResponse ==
    /\ [](\A id \in DOMAIN served :
             /\ served[id].invoked <= 1
             /\ Len(served[id].outcomes) <= 1
             /\ Len(ResponsesFor(id)) <= 1
             /\ (\A r \in running : r.request.props.id # id)
                    => Len(ResponsesFor(id)) = 1)
    /\ []<>(\A id \in DOMAIN served : Len(ResponsesFor(id)) = 1)

\* a Request answered after its handler was suspended and then failed
C5_Witness ==
    \E id \in Ids :
        /\ Failed(id)
        /\ served[id].invoked = 1
        /\ Len(ResponsesFor(id)) = 1
        /\ Truthy(Get(ResponsesFor(id)[1], "error"))
        /\ \A r \in running : r.request.props.id # id

\* nothing is in flight and no handler is running
Quiescent == running = {} /\ \A w \in Windows : inbox[w] = <<>>

\* C6: with every message delivered and every handler settled, a call whose
\* request handler failed has been rejected, whatever value the handler threw
\* or rejected with.
C6_FailedHandlerRejects ==
    Quiescent => \A id \in Ids : Failed(id) => calls[id].status = "rejected"

\* C7: a Request for an action with no registered handler invokes no handler
\* and is answered by exactly one Response with its id and error = true; no
\* exception escapes a listener handling the Request or that Response; and the
\* requester's call is never resolved, and is rejected once the Response has
\* been delivered.
C7_UnknownActionRejects ==
    \A id \in Ids :
        Unhandled(id) =>
           /\ served[id].invoked = 0
           /\ Len(ResponsesFor(id)) = 1
           /\ Get(ResponsesFor(id)[1], "error") = Bool(TRUE)
           /\ \A u \in uncaught : ~(In("id", u.data) /\ u.data.props.id = id)
           /\ calls[id].status # "resolved"
           /\ Answered(id) =>
                 calls[id].status = "rejected" /\ InstanceOfError(calls[id].value)

C7_Witness ==
    \E id \in Ids : Unhandled(id) /\ calls[id].status = "rejected"

\* the structured errors: a message, a category that is a string, and data
StructuredErrors ==
    {RequestError(Str(m), Str(t), d) :
        m \in {"m", ""}, t \in {"t", ""}, d \in {Str("d"), Undefined, Null}}

IsStructured(e) == e.kind = "RequestError" /\ TypeOf(e.type) = "string"

\* C8: decoding the encoding of a structured error gives back its message,
\* type and data; and when a request handler fails with a structured error,
\* the payload of the error Response has exactly the fields message, type and
\* data, with the thrown values, and the requester's call is rejected with a
\* structured error carrying the same three values.
C8_StructuredErrorRoundTrip ==
    /\ \A e \in StructuredErrors :
          parseErrorPayload(Clone(toErrorPayload(e))) = [threw |-> FALSE, value |-> e]
    /\ \A id \in Ids :
          (Failed(id) /\ IsStructured(Result(id))) =>
             /\ \A i \in 1..Len(ResponsesFor(id)) :
                   LET payload == ResponsesFor(id)[i].props.payload IN
                   /\ payload.kind = "object"
                   /\ DOMAIN payload.props = {"message", "type", "data"}
                   /\ payload.props.message = Result(id).message
                   /\ payload.props.type = Result(id).type
                   /\ payload.props.data = Result(id).data
             /\ calls[id].status # "resolved"
             /\ Answered(id) =>
                   /\ calls[id].status = "rejected"
                   /\ calls[id].value.kind = "RequestError"
                   /\ calls[id].value.message = Result(id).message
                   /\ calls[id].value.type = Result(id).type
                   /\ calls[id].value.data = Result(id).data

C8_Witness ==
    \E id \in Ids :
        /\ Failed(id) /\ IsStructured(Result(id))
        /\ calls[id].status = "rejected"
        /\ calls[id].value = Result(id)

\* C9: no exception escapes the inbound dispatch listener, also when a
\* registered event handler throws.
C9_EventHandlerFailureCaught ==
    \A u \in uncaught : u.listener # "messageHandler"

\* C10: the task that delivers, from the peer, an Event for an action with no
\* registered event handler posts nothing, raises nothing, and leaves the
\* registries, the pending calls and everything else the messengers hold as
\* they were.
C10_UnhandledEventNoEffect ==
    [][\A w \in Windows :
          (/\ Delivers(w)
           /\ fromSource(w, Head(inbox[w]))
           /\ isEvent(Head(inbox[w]).data)
           /\ MapGet(eventHandlers[w], Head(inbox[w]).data.props.action) = NoHandler)
          => /\ UNCHANGED MessengerState
             /\ inbox'[SourceOf(w)] = inbox[SourceOf(w)]]_vars

\* an Event was delivered while its action had no handler, and a Request
\* delivered after it was served
C10_Witness ==
    /\ count.events = 1 /\ count.registrations = 1
    /\ \A w \in Windows : eventHandlers[w] = EmptyMap
    /\ Quiescent
    /\ evLog = <<>>
    /\ \E id \in Ids : Returned(id) /\ calls[id].status = "resolved"

\* the Events posted by the two messengers that are still in a queue
EventsInFlight(w) == Len(SelectSeq(inbox[w], LAMBDA m : isEvent(m.data)))

\* C11: Events are never kept for later. An event handler is invoked only in
\* the task that delivers, from the peer, an Event whose action has a handler
\* at that moment, and with that Event's payload; registering a handler
\* invokes nothing; an Event dispatched while its action had no handler is
\* gone, so every Event sent is in flight, was handled once, or was dropped.
C11_EventsNotReplayed ==
    [][/\ evLog' # evLog =>
            \E w \in Windows :
               /\ Delivers(w)
               /\ fromSource(w, Head(inbox[w]))
               /\ isEvent(Head(inbox[w]).data)
               /\ LET data == Head(inbox[w]).data
                      handler == MapGet(eventHandlers[w], data.props.action)
                  IN  /\ handler # NoHandler
                      /\ evLog' = Append(evLog,
                                         Invocation(w, handler, data.props.action,
                                                    Get(data, "payload")))
       /\ Len(evLog') + Len(hist.dropped') + EventsInFlight("host")'
             + EventsInFlight("iframe")' = count.events'
       /\ Len(evLog') >= Len(evLog)
       /\ Len(hist.dropped') >= Len(hist.dropped)]_vars

\* an Event was dispatched while its action had no handler, a handler for that
\* action was registered in that window afterwards, and it was never invoked
C11_Witness ==
    /\ Quiescent
    /\ evLog = <<>>
    /\ \E i \in 1..Len(hist.dropped) :
          MapGet(eventHandlers[hist.dropped[i].w], hist.dropped[i].action) # NoHandler

\* the handler registered last for an action, given the registrations so far
LastOf(log) == IF log = <<>> THEN NoHandler ELSE log[Len(log)]

\* a registry maps every action to the handler registered last for it
Registered(registry, log) ==
    \A w \in Windows, a \in Actions : MapGet(registry[w], a) = LastOf(log[w][a])

\* a registration for (w, a) in `registry` left every other action of it as
\* it was
OthersKept(log, registry, w, a) ==
    \A x \in Windows, b \in Actions :
        <<x, b>> # <<w, a>> =>
            /\ log'[x][b] = log[x][b]
            /\ MapGet(registry'[x], b) = MapGet(registry[x], b)

\* C12: both registries are last-write-wins per action. After every step each
\* registry maps each action to the handler registered last for it; a
\* registration for an action leaves the other actions and the other
\* registry unchanged; a Request or an Event is served by the handler
\* registered last for its action when it is dispatched.
C12_LastRegistrationWins ==
    [][/\ Registered(requestHandlers, hist.requestHandlers)'
       /\ Registered(eventHandlers, hist.eventHandlers)'
       /\ \A w \in Windows, a \in Actions :
             /\ hist.requestHandlers'[w][a] # hist.requestHandlers[w][a] =>
                   /\ OthersKept(hist.requestHandlers, requestHandlers, w, a)
                   /\ UNCHANGED <<eventHandlers, hist.eventHandlers>>
             /\ hist.eventHandlers'[w][a] # hist.eventHandlers[w][a] =>
                   /\ OthersKept(hist.eventHandlers, eventHandlers, w, a)
                   /\ UNCHANGED <<requestHandlers, hist.requestHandlers>>
       /\ \A id \in DOMAIN served' \ DOMAIN served :
             served'[id].handler =
                 LastOf(hist.requestHandlers[served'[id].w][calls[id].action])
       /\ evLog' # evLog =>
             LET e == evLog'[Len(evLog')]
             IN  e.handler = LastOf(hist.eventHandlers[e.w][e.action])]_vars

\* an action was registered twice with different handlers, and an Event for
\* it was then handled by the second one
C12_Witness ==
    \E w \in Windows, a \in Actions :
        /\ Len(hist.eventHandlers[w][a]) = 2
        /\ hist.eventHandlers[w][a][1] # hist.eventHandlers[w][a][2]
        /\ evLog = <<Invocation(w, hist.eventHandlers[w][a][2], a, Str("e"))>>

\* `data` is an object with the fields `keys` and the tag `type`
Shaped(data, keys, type) ==
    /\ data.kind = "object"
    /\ keys \subseteq DOMAIN data.props
    /\ "type" \in DOMAIN data.props
    /\ data.props.type = type

C14_DetachedOnSettlement ==
    [][\A id \in Ids :
          /\ calls'[id].status # "pending" => ~calls'[id].armed
          /\ calls[id].status # "pending" => calls'[id] = calls[id]]_vars

\* one call was resolved and another rejected, and both listeners are detached
C14_Witness ==
    \E i, j \in Ids :
        /\ calls[i].status = "resolved" /\ ~calls[i].armed
        /\ calls[j].status = "rejected" /\ ~calls[j].armed
        /\ Answered(i) /\ Answered(j)

\* C15: no armed listener outlives its sendRequest call. A call whose Request
\* could not be handed to the transport is rejected and has its listener
\* detached, and with every message delivered and every handler settled the
\* calls with an armed listener are the calls whose awaitable has not settled.
C15_NoListenerOutlivesCall ==
    /\ \A id \in Ids :
          ~calls[id].sent => Awaitable(calls[id]) = "rejected" /\ ~calls[id].armed
    /\ Quiescent =>
          {id \in Ids : calls[id].armed} =
          {id \in Ids : Awaitable(calls[id]) = "pending"}

RepliedHandled ==
    LET rs == SelectSeq(replied, LAMBDA r : Handled(r.props.id))
    IN  [i \in 1..Len(rs) |-> rs[i].props.id]

\* C17: a suspended request handler blocks nothing. While a handler is
\* suspended in a window, the next message in that window's queue can be
\* dispatched, and any of the suspended handlers can be the next to complete,
\* whichever Request arrived first; the Responses of the handlers are posted
\* in the order in which the handlers completed.
C17_SuspendedHandlerDoesNotBlock ==
    /\ \A r \in running : inbox[r.w] # <<>> => ENABLED DeliverMessage(r.w)
    /\ \A r \in running : ENABLED (CompleteHandler(r.w) /\ r \notin running')
    /\ RepliedHandled = hist.completed

\* the handler of the first Request is still suspended while the second
\* Request, delivered after it, has been served and answered
C17_Witness ==
    /\ Len(calls) = 2
    /\ \E r \in running : r.request.props.id = 1
    /\ Returned(2)
    /\ RepliedHandled = <<2>>
    /\ calls[2].status = "resolved"

\* C18: event handlers are invoked in the order in which their Events are
\* delivered, each once and with its own payload. The list of invocations
\* only ever grows at its end; the task that delivers, from the peer, an Event
\* whose action has a handler adds exactly one invocation, of that handler
\* with that Event's payload; every other step adds none.
C18_EventsHandledInDeliveryOrder ==
    [][LET handled(w) ==
               /\ Delivers(w)
               /\ fromSource(w, Head(inbox[w]))
               /\ isEvent(Head(inbox[w]).data)
               /\ MapGet(eventHandlers[w], Head(inbox[w]).data.props.action) # NoHandler
       IN  /\ \A w \in Windows :
                 handled(w) =>
                    /\ Len(evLog') = Len(evLog) + 1
                    /\ SubSeq(evLog', 1, Len(evLog)) = evLog
                    /\ evLog'[Len(evLog')].w = w
                    /\ evLog'[Len(evLog')].action = Head(inbox[w]).data.props.action
                    /\ evLog'[Len(evLog')].payload = Get(Head(inbox[w]).data, "payload")
           /\ (\A w \in Windows : ~handled(w)) => evLog' = evLog]_vars

\* two Events with different payloads were sent to a window and handled there:
\* the one delivered first was handled first
C18_Witness ==
    \E w \in Windows, a \in Actions, h \in EventHandlerNames :
        /\ evLog = <<Invocation(w, h, a, Str("e2")), Invocation(w, h, a, Str("e"))>>
        /\ count.events = 2
        /\ Quiescent

\* C19: a call settles at most once. In the task that delivers a Response
\* carrying the id of a call that is already settled, the call keeps its
\* outcome and its value, no call settles, and no listener raises an
\* exception; no id ever appears twice in the order of settlement.
C19_SettlesAtMostOnce ==
    [][/\ \A w \in Windows :
             Delivers(w) =>
                LET data == Head(inbox[w]).data
                IN  \A id \in Ids :
                       (/\ calls[id].owner = w
                        /\ calls[id].status # "pending"
                        /\ isResponse(data)
                        /\ data.props.id = id)
                       => /\ calls'[id].status = calls[id].status
                          /\ calls'[id].value = calls[id].value
                          /\ settleOrder' = settleOrder
                          /\ uncaught' = uncaught
       /\ \A i, j \in 1..Len(settleOrder') :
             settleOrder'[i] = settleOrder'[j] => i = j]_vars

\* the only call was resolved by a Response that the peer's application
\* posted itself; the Response of the peer's messenger, with the same id, was
\* delivered after it and changed nothing
C19_Witness ==
    /\ Len(calls) = 1
    /\ calls[1].seen = <<Obj([id |-> 1, type |-> messageTypeResponse,
                              payload |-> Str("again"), error |-> Undefined])>>
    /\ calls[1].status = "resolved" /\ calls[1].value = Str("again")
    /\ Len(ResponsesFor(1)) = 1
    /\ Quiescent
    /\ settleOrder = <<1>>
    /\ uncaught = {}

\* the error field of every Response posted for a Request whose handler
\* returned is `ok`, and that of every Response posted for a Request that
\* found no handler, or whose handler failed, is true
ErrorFlags(ok) ==
    \A i \in 1..Len(replied) :
        LET response == replied[i]
            id == response.props.id
        IN  /\ In("error", response)
            /\ In("payload", response)
            /\ Returned(id) => response.props.error = ok
            /\ (Unhandled(id) \/ Failed(id)) => response.props.error = Bool(TRUE)

====
